---- MODULE Spec2Model ----
(***************************************************************************)
(* Verification model of src/core/dom/parse-date-attributes.js (amphtml).  *)
(*                                                                         *)
(* parseDateAttrs(element, dateAttrs) is a synchronous function of the     *)
(* element's attributes, the caller's list of attribute names and the      *)
(* wall clock.  The inputs (element, dateAttrs) are drawn in Init; the     *)
(* action ParseDateAttrsCall applies the function once, with the value     *)
(* Date.now() returns drawn from Clock, and adds the record of the call    *)
(* (what parseEpoch returned, what parseDateAttrs returned or threw, the   *)
(* ordered trace of registry lookups, attribute reads and parser calls,    *)
(* the clock value if it was read) to the set of calls observed so far.    *)
(*                                                                         *)
(* JavaScript values are tagged records; attribute values are sequences of *)
(* one-character strings so that Number() and the date parser really parse *)
(* them.                                                                   *)
(***************************************************************************)
EXTENDS Integers, Sequences, FiniteSets, TLC

VARIABLES element, dateAttrs, calls,
          interactive,
          attachment, win, store, analytics, lastOp

\* the date parser's caller, the interactive components, the page attachment
dateVars == <<element, dateAttrs, calls>>
interactiveVars == <<interactive>>
attachmentVars == <<attachment, win, store, analytics, lastOp>>

vars == <<dateVars, interactiveVars, attachmentVars>>

(***************************************************************************)
(* Bounds of the model.                                                    *)
(***************************************************************************)
\* longest list of attribute names a caller passes
MaxAttrs == 2
\* Date.now() returns one of MaxNow + 1 consecutive clock values
MaxNow == 2
\* most options an author configures on an interactive component
MaxOptions == 5
\* most history entries pushed and not yet popped
MaxHistory == 3
\* most analytics events followed
MaxEvents == 8

(***************************************************************************)
(* JavaScript values.                                                      *)
(***************************************************************************)
Null == [t |-> "null"]
Undefined == [t |-> "undefined"]
NaN == [t |-> "NaN"]
Num(n) == [t |-> "number", n |-> n]
Str(s) == [t |-> "string", s |-> s]
Fn(f) == [t |-> "function", f |-> f]
Obj(s) == [t |-> "object", s |-> s]

\* ToBoolean: what `if (v)`, `v || w` and an assertion on v test
Truthy(v) ==
  CASE v.t = "null" -> FALSE
    [] v.t = "undefined" -> FALSE
    [] v.t = "NaN" -> FALSE
    [] v.t = "number" -> v.n # 0
    [] v.t = "string" -> Len(v.s) > 0
    [] OTHER -> TRUE

\* a || b
Or(a, b) == IF Truthy(a) THEN a ELSE b

\* a + b on numbers (NaN is absorbing)
Add(a, b) == IF a.t = "number" /\ b.t = "number" THEN Num(a.n + b.n) ELSE NaN

\* a * b on numbers (NaN is absorbing)
Mul(a, b) == IF a.t = "number" /\ b.t = "number" THEN Num(a.n * b.n) ELSE NaN

(***************************************************************************)
(* Number(v): the string is trimmed; the empty string is 0; an optionally  *)
(* signed run of decimal digits is its value; anything else is NaN.        *)
(* Number(null) is 0.  (Fractions, exponents, hex and Infinity are outside *)
(* the alphabet of the inputs drawn below.)                                *)
(***************************************************************************)
DigitChars == {"0", "1", "2", "3", "4", "5", "6", "7", "8", "9"}

DigitVal(c) ==
  CASE c = "0" -> 0 [] c = "1" -> 1 [] c = "2" -> 2 [] c = "3" -> 3
    [] c = "4" -> 4 [] c = "5" -> 5 [] c = "6" -> 6 [] c = "7" -> 7
    [] c = "8" -> 8 [] c = "9" -> 9

IsDigits(s) == Len(s) > 0 /\ \A i \in 1..Len(s) : s[i] \in DigitChars

RECURSIVE DigitsValue(_)
DigitsValue(s) ==
  IF Len(s) = 0 THEN 0
  ELSE 10 * DigitsValue(SubSeq(s, 1, Len(s) - 1)) + DigitVal(s[Len(s)])

RECURSIVE TrimLeft(_)
TrimLeft(s) == IF Len(s) > 0 /\ s[1] = " " THEN TrimLeft(Tail(s)) ELSE s

RECURSIVE TrimRight(_)
TrimRight(s) ==
  IF Len(s) > 0 /\ s[Len(s)] = " " THEN TrimRight(SubSeq(s, 1, Len(s) - 1)) ELSE s

StringToNumber(s) ==
  LET str == TrimRight(TrimLeft(s)) IN
  IF Len(str) = 0 THEN Num(0)
  ELSE IF str[1] \in {"-", "+"}
       THEN IF IsDigits(Tail(str))
            THEN Num((IF str[1] = "-" THEN -1 ELSE 1) * DigitsValue(Tail(str)))
            ELSE NaN
       ELSE IF IsDigits(str) THEN Num(DigitsValue(str)) ELSE NaN

Number(v) ==
  CASE v.t = "string" -> StringToNumber(v.s)
    [] v.t = "null" -> Num(0)
    [] v.t = "number" -> v
    [] OTHER -> NaN

(***************************************************************************)
(* parseDate of core/types/date (its code is not part of the sources       *)
(* modelled here): the epoch milliseconds of a parsable date string, null  *)
(* otherwise.  The model parses the ISO calendar-date form YYYY-MM-DD      *)
(* (midnight UTC); every other string of the input alphabet is unparsable. *)
(***************************************************************************)
IsLeapYear(y) == (y % 4 = 0 /\ y % 100 # 0) \/ y % 400 = 0

DaysInMonth(y, m) ==
  IF m = 2 THEN (IF IsLeapYear(y) THEN 29 ELSE 28)
  ELSE IF m \in {4, 6, 9, 11} THEN 30 ELSE 31

\* days from 1970-01-01 to the civil date y-m-d (proleptic Gregorian)
DaysFromCivil(y, m, d) ==
  LET yy == IF m <= 2 THEN y - 1 ELSE y
      era == yy \div 400
      yoe == yy - era * 400
      mp == IF m > 2 THEN m - 3 ELSE m + 9
      doy == (153 * mp + 2) \div 5 + d - 1
      doe == yoe * 365 + yoe \div 4 - yoe \div 100 + doy
  IN era * 146097 + doe - 719468

IsCalendarDate(s) ==
  /\ Len(s) = 10
  /\ s[5] = "-" /\ s[8] = "-"
  /\ IsDigits(SubSeq(s, 1, 4)) /\ IsDigits(SubSeq(s, 6, 7)) /\ IsDigits(SubSeq(s, 9, 10))
  /\ LET y == DigitsValue(SubSeq(s, 1, 4))
         m == DigitsValue(SubSeq(s, 6, 7))
         d == DigitsValue(SubSeq(s, 9, 10))
     IN m \in 1..12 /\ d \in 1..DaysInMonth(y, m)

parseDate(v) ==
  IF v.t = "string" /\ IsCalendarDate(v.s)
  THEN Num(DaysFromCivil(DigitsValue(SubSeq(v.s, 1, 4)),
                         DigitsValue(SubSeq(v.s, 6, 7)),
                         DigitsValue(SubSeq(v.s, 9, 10))) * (24 * 60 * 60 * 1000))
  ELSE Null

(***************************************************************************)
(* Outcomes of a call, and the assertions of core/assert: both return      *)
(* their first argument when it is truthy and throw the formatted message  *)
(* otherwise.  A message is kept as its format and its argument.           *)
(***************************************************************************)
Return(v) == [kind |-> "return", value |-> v]
Throw(message, arg) == [kind |-> "throw", message |-> message, arg |-> arg]

InvalidDateMsg == "Invalid date: %s"
MissingAttrMsg == "One of attributes [%s] is required"
InvalidAttrMsg == "Invalid date attribute \"%s\""

userAssert(shouldBeTruthy, message, arg) ==
  IF Truthy(shouldBeTruthy) THEN Return(shouldBeTruthy) ELSE Throw(message, arg)

devAssert(shouldBeTruthy, message, arg) ==
  IF Truthy(shouldBeTruthy) THEN Return(shouldBeTruthy) ELSE Throw(message, arg)

(***************************************************************************)
(* The registry dateAttrParsers.                                           *)
(***************************************************************************)
\* the keys of the object literal
ParserNames == {"datetime", "end-date", "timeleft-ms", "timestamp-ms", "timestamp-seconds"}

\* properties every object literal inherits from Object.prototype
ObjectPrototypeNames == {"constructor"}

\* dateAttrParsers[attrName]: an own key, then the prototype chain, else undefined
dateAttrParsers(attrName) ==
  IF attrName \in ParserNames THEN Fn(attrName)
  ELSE IF attrName \in ObjectPrototypeNames THEN Fn("Object")
  ELSE Undefined

\* the parsers with 'timestamp-seconds' not scaled to milliseconds
CallParserSecondsUnscaled(parser, attrVal, now) ==
  CASE parser.f = "datetime" ->
         userAssert(parseDate(attrVal), InvalidDateMsg, attrVal.s)
    [] parser.f = "end-date" ->
         userAssert(parseDate(attrVal), InvalidDateMsg, attrVal.s)
    [] parser.f = "timeleft-ms" -> Return(Add(Num(now), Number(attrVal)))
    [] parser.f = "timestamp-ms" -> Return(Number(attrVal))
    [] parser.f = "timestamp-seconds" -> Return(Number(attrVal))
    [] parser.f = "Object" -> Return(Obj(attrVal.s))

\* the parsers with 'timeleft-ms' counting from a clock value read once
CallParserFrozenClock(parser, attrVal, now) ==
  CASE parser.f = "datetime" ->
         userAssert(parseDate(attrVal), InvalidDateMsg, attrVal.s)
    [] parser.f = "end-date" ->
         userAssert(parseDate(attrVal), InvalidDateMsg, attrVal.s)
    [] parser.f = "timeleft-ms" -> Return(Add(Num(1000), Number(attrVal)))
    [] parser.f = "timestamp-ms" -> Return(Number(attrVal))
    [] parser.f = "timestamp-seconds" -> Return(Mul(Num(1000), Number(attrVal)))
    [] parser.f = "Object" -> Return(Obj(attrVal.s))

\* the parsers with 'timestamp-seconds' counted from the clock as well
CallParserSecondsFromNow(parser, attrVal, now) ==
  CASE parser.f = "datetime" ->
         userAssert(parseDate(attrVal), InvalidDateMsg, attrVal.s)
    [] parser.f = "end-date" ->
         userAssert(parseDate(attrVal), InvalidDateMsg, attrVal.s)
    [] parser.f = "timeleft-ms" -> Return(Add(Num(now), Number(attrVal)))
    [] parser.f = "timestamp-ms" -> Return(Number(attrVal))
    [] parser.f = "timestamp-seconds" ->
         Return(Add(Num(now), Mul(Num(1000), Number(attrVal))))
    [] parser.f = "Object" -> Return(Obj(attrVal.s))

\* parser(attrVal), with Date.now() returning now
CallParser(parser, attrVal, now) ==
  CASE parser.f = "datetime" ->
         userAssert(parseDate(attrVal), InvalidDateMsg, attrVal.s)
    [] parser.f = "end-date" ->
         userAssert(parseDate(attrVal), InvalidDateMsg, attrVal.s)
    [] parser.f = "timeleft-ms" -> Return(Add(Num(now), Number(attrVal)))
    [] parser.f = "timestamp-ms" -> Return(Number(attrVal))
    [] parser.f = "timestamp-seconds" -> Return(Mul(Num(1000), Number(attrVal)))
    [] parser.f = "Object" -> Return(Obj(attrVal.s))

(***************************************************************************)
(* The element: a function from the names of its present attributes to     *)
(* their values.  getAttribute gives null for an absent attribute.         *)
(***************************************************************************)
getAttribute(el, name) == IF name \in DOMAIN el THEN Str(el[name]) ELSE Null

\* one step of the trace of a call
Ev(op, name) == [op |-> op, name |-> name]

(***************************************************************************)
(* parseEpoch.  The result carries the outcome and the trace.              *)
(***************************************************************************)
\* dateAttrs.map((attrName) => devAssert(dateAttrParsers[attrName], ...))
RECURSIVE MapParsers(_, _, _, _)
MapParsers(names, i, parsers, log) ==
  IF i > Len(names) THEN [out |-> Return(parsers), log |-> log]
  ELSE LET r == devAssert(dateAttrParsers(names[i]), InvalidAttrMsg, <<names[i]>>)
           log2 == Append(log, Ev("lookup", names[i]))
       IN IF r.kind = "throw" THEN [out |-> r, log |-> log2]
          ELSE MapParsers(names, i + 1, Append(parsers, r.value), log2)

\* the loop with the test `attrVal !== null` in place of `attrVal`
RECURSIVE ScanAttrsNotNull(_, _, _, _, _, _)
ScanAttrsNotNull(el, names, parsers, i, now, log) ==
  IF i > Len(names) THEN [out |-> Return(Null), log |-> log]
  ELSE LET attrVal == getAttribute(el, names[i])
           log2 == Append(log, Ev("getAttribute", names[i]))
       IN IF attrVal # Null
          THEN [out |-> CallParser(parsers[i], attrVal, now),
                log |-> Append(log2, Ev("parse", names[i]))]
          ELSE ScanAttrsNotNull(el, names, parsers, i + 1, now, log2)

\* for (let i = 0; i < dateAttrs.length; ++i) {...}  return null
RECURSIVE ScanAttrs(_, _, _, _, _, _)
ScanAttrs(el, names, parsers, i, now, log) ==
  IF i > Len(names) THEN [out |-> Return(Null), log |-> log]
  ELSE LET attrVal == getAttribute(el, names[i])
           log2 == Append(log, Ev("getAttribute", names[i]))
       IN IF Truthy(attrVal)
          THEN [out |-> CallParser(parsers[i], attrVal, now),
                log |-> Append(log2, Ev("parse", names[i]))]
          ELSE ScanAttrs(el, names, parsers, i + 1, now, log2)

\* parseEpoch with the lookup made inside the loop, name by name
RECURSIVE ScanLazily(_, _, _, _, _)
ScanLazily(el, names, i, now, log) ==
  IF i > Len(names) THEN [out |-> Return(Null), log |-> log]
  ELSE LET r == devAssert(dateAttrParsers(names[i]), InvalidAttrMsg, <<names[i]>>)
           log1 == Append(log, Ev("lookup", names[i]))
           attrVal == getAttribute(el, names[i])
           log2 == Append(log1, Ev("getAttribute", names[i]))
       IN IF r.kind = "throw" THEN [out |-> r, log |-> log1]
          ELSE IF Truthy(attrVal)
               THEN [out |-> CallParser(r.value, attrVal, now),
                     log |-> Append(log2, Ev("parse", names[i]))]
               ELSE ScanLazily(el, names, i + 1, now, log2)

parseEpochLazy(el, names, now) == ScanLazily(el, names, 1, now, <<>>)

parseEpoch(el, names, now) ==
  LET m == MapParsers(names, 1, <<>>, <<>>) IN
  IF m.out.kind = "throw" THEN m
  ELSE ScanAttrs(el, names, m.out.value, 1, now, m.log)

(***************************************************************************)
(* parseDateAttrs.  epoch is what parseEpoch returned or threw, out what   *)
(* parseDateAttrs returns or throws.                                       *)
(***************************************************************************)
\* parseDateAttrs without the assertion on the epoch (null + n is n)
parseDateAttrsNoAssert(el, names, now) ==
  LET e == parseEpoch(el, names, now) IN
  IF e.out.kind = "throw" THEN [epoch |-> e.out, out |-> e.out, log |-> e.log]
  ELSE LET offsetSeconds ==
             Mul(Or(Number(getAttribute(el, "offset-seconds")), Num(0)), Num(1000))
       IN [epoch |-> e.out,
           out |-> Return(Add(Number(e.out.value), offsetSeconds)),
           log |-> Append(e.log, Ev("getAttribute", "offset-seconds"))]

\* parseDateAttrs adding the offset in seconds, not milliseconds
parseDateAttrsOffsetUnscaled(el, names, now) ==
  LET e == parseEpoch(el, names, now) IN
  IF e.out.kind = "throw" THEN [epoch |-> e.out, out |-> e.out, log |-> e.log]
  ELSE LET epoch == userAssert(e.out.value, MissingAttrMsg, names) IN
       IF epoch.kind = "throw" THEN [epoch |-> e.out, out |-> epoch, log |-> e.log]
       ELSE LET offsetSeconds == Or(Number(getAttribute(el, "offset-seconds")), Num(0))
            IN [epoch |-> e.out,
                out |-> Return(Add(epoch.value, offsetSeconds)),
                log |-> Append(e.log, Ev("getAttribute", "offset-seconds"))]

parseDateAttrs(el, names, now) ==
  LET e == parseEpoch(el, names, now) IN
  IF e.out.kind = "throw" THEN [epoch |-> e.out, out |-> e.out, log |-> e.log]
  ELSE LET epoch == userAssert(e.out.value, MissingAttrMsg, names) IN
       IF epoch.kind = "throw" THEN [epoch |-> e.out, out |-> epoch, log |-> e.log]
       ELSE LET offsetSeconds ==
                  Mul(Or(Number(getAttribute(el, "offset-seconds")), Num(0)), Num(1000))
            IN [epoch |-> e.out,
                out |-> Return(Add(epoch.value, offsetSeconds)),
                log |-> Append(e.log, Ev("getAttribute", "offset-seconds"))]

(***************************************************************************)
(* The inputs.                                                             *)
(***************************************************************************)
\* names a caller may pass: the registry's, an inherited property, a stranger
AttrNames == ParserNames \cup ObjectPrototypeNames \cup {"bogus"}

\* names of the attributes an element may carry
ElementAttrNames == ParserNames \cup {"offset-seconds"}

\* values drawn for the numeric attributes: "", "0", "10", "-3", "abc"
NumericAttrValues == { <<>>, <<"0">>, <<"1", "0">>, <<"-", "3">>, <<"a", "b", "c">> }

\* values drawn for the date attributes: "", "abc", "1970-01-01", "1970-01-02"
DateAttrValues ==
  { <<>>, <<"a", "b", "c">>,
    <<"1", "9", "7", "0", "-", "0", "1", "-", "0", "1">>,
    <<"1", "9", "7", "0", "-", "0", "1", "-", "0", "2">> }

AttrValues == NumericAttrValues \cup DateAttrValues

ValuesOf(name) ==
  IF name \in {"datetime", "end-date"} THEN DateAttrValues ELSE NumericAttrValues

RECURSIVE SeqsUpTo(_, _)
SeqsUpTo(S, n) ==
  IF n = 0 THEN {<<>>}
  ELSE LET shorter == SeqsUpTo(S, n - 1) IN
       shorter \cup {Append(q, x) : q \in shorter, x \in S}

DateAttrLists == SeqsUpTo(AttrNames, MaxAttrs)

\* the elements drawn carry no, one or two attributes
ElementSizes == {0, 1, 2}

Elements ==
  UNION {{el \in [D -> AttrValues] : \A a \in D : el[a] \in ValuesOf(a)} :
           D \in {S \in SUBSET ElementAttrNames : Cardinality(S) \in ElementSizes}}

\* what Date.now() may return: the clock is well past the epoch, so that no
\* time left drawn above brings it back to 0
Clock == {1000 + t : t \in 0..MaxNow}

(***************************************************************************)
(* The components of a story page, as their constructors leave them.       *)
(***************************************************************************)
\* JS booleans
Bool(b) == [t |-> "boolean", b |-> b]

\* DrawerState of amp-story-draggable-drawer
DrawerState ==
  [CLOSED |-> "CLOSED", DRAGGING_TO_CLOSE |-> "DRAGGING_TO_CLOSE",
   DRAGGING_TO_OPEN |-> "DRAGGING_TO_OPEN", OPEN |-> "OPEN"]

AttachmentType == [INLINE |-> Num(0), REMOTE |-> Num(1)]

\* the image quiz and the image poll
InteractiveKinds == {"img-quiz", "img-poll"}

\* new AmpStoryInteractiveImgQuiz(el), new AmpStoryInteractiveImgPoll(el)
InteractiveConstructed ==
  [k \in InteractiveKinds |-> [options |-> 0, status |-> "constructed", error |-> Null]]

\* the pages of the story
PageIds == {"page-1", "page-2"}

\* new AmpStoryPageAttachment(element), the element carrying href, on the
\* page the story shows.  win.entries are the states of the session history
\* (the document's own entry first, the current one last), win.onPop the
\* callbacks of the entries pushed through the history service; the store
\* holds the last value dispatched per action; lastOp is the last operation,
\* the drawer state it found, whether it popped an entry, and the last of
\* open and closeInternal_ that took effect
AttachmentConstructed(href, page) ==
  /\ attachment = [href |-> href, lifecycle |-> "constructed", type_ |-> Null,
                   state_ |-> DrawerState.CLOSED, visibilityListener |-> FALSE]
  /\ win = [entries |-> << [ATTACHMENT_PAGE_ID |-> Null,
                           NAVIGATION_PATH |-> Str(page)] >>,
            onPop |-> <<>>,
            visible |-> TRUE, timer |-> FALSE, animationEl |-> FALSE]
  /\ store = [CURRENT_PAGE_ID |-> Str(page),
              TOGGLE_PAGE_ATTACHMENT_STATE |-> Null,
              TOGGLE_SYSTEM_UI_IS_VISIBLE |-> Null]
  /\ analytics = <<>>
  /\ lastOp = [name |-> "constructor", state |-> DrawerState.CLOSED,
               popped |-> FALSE, effective |-> "none"]

(***************************************************************************)
(* The state machine.                                                      *)
(***************************************************************************)
Init ==
  /\ element \in Elements
  /\ dateAttrs \in DateAttrLists
  /\ calls = {}
  /\ interactive = InteractiveConstructed
  /\ AttachmentConstructed(Null, "page-1")

\* did the call read Date.now()
ReadsClock(log) == \E i \in 1..Len(log) : log[i] = Ev("parse", "timeleft-ms")

\* a call that takes the attributes it reads off the element
ParseDateAttrsCallConsuming ==
  \E t \in Clock :
    \E r \in {parseDateAttrs(element, dateAttrs, t)} :
      /\ calls' = calls \cup {[epoch |-> r.epoch, out |-> r.out, log |-> r.log,
                               now |-> IF ReadsClock(r.log) THEN Num(t) ELSE Null]}
      /\ element' = [a \in DOMAIN element \
                             {r.log[i].name : i \in {j \in 1..Len(r.log) :
                                                      r.log[j].op = "getAttribute"}}
                        |-> element[a]]
      /\ UNCHANGED <<dateAttrs, interactiveVars, attachmentVars>>

\* one call parseDateAttrs(element, dateAttrs), made when the clock shows t
ParseDateAttrsCall ==
  /\ \E t \in Clock :
       \E r \in {parseDateAttrs(element, dateAttrs, t)} :
       calls' = calls \cup {[epoch |-> r.epoch, out |-> r.out, log |-> r.log,
                             now |-> IF ReadsClock(r.log) THEN Num(t) ELSE Null]}
  /\ UNCHANGED <<element, dateAttrs, interactiveVars, attachmentVars>>

Next == ParseDateAttrsCall

Spec == Init /\ [][Next]_vars

(***************************************************************************)
(* Vocabulary of the properties.                                           *)
(***************************************************************************)
\* the attribute is present on the element with a non-empty value
HasValue(name) == name \in DOMAIN element /\ element[name] # <<>>

\* the registry lookup of every name of the list yields something
AllRecognized == \A k \in 1..Len(dateAttrs) : Truthy(dateAttrParsers(dateAttrs[k]))

\* positions of the candidates that have a value
PresentAt == {k \in 1..Len(dateAttrs) : HasValue(dateAttrs[k])}

\* the first of them
FirstPresent == CHOOSE k \in PresentAt : \A j \in PresentAt : k <= j

\* the steps of a trace made by operation op, in order
Steps(log, op) == SelectSeq(log, LAMBDA e : e.op = op)

\* the names of the steps of a trace
RECURSIVE StepNames(_)
StepNames(log) == IF log = <<>> THEN <<>> ELSE <<Head(log).name>> \o StepNames(Tail(log))

\* the values drawn, written out
V_empty == <<>>
V_0 == <<"0">>
V_10 == <<"1", "0">>
V_minus3 == <<"-", "3">>
V_abc == <<"a", "b", "c">>
V_epochDay == <<"1", "9", "7", "0", "-", "0", "1", "-", "0", "1">>
V_nextDay == <<"1", "9", "7", "0", "-", "0", "1", "-", "0", "2">>

\* the numeric strings among them and the numbers they denote
NumericStrings == {V_0, V_10, V_minus3}

Denotes(s) == CASE s = V_0 -> 0 [] s = V_10 -> 10 [] s = V_minus3 -> -3

\* the parsable dates among them and their epoch milliseconds
ParsableDates == {V_epochDay, V_nextDay}

EpochOf(s) == CASE s = V_epochDay -> 0 [] s = V_nextDay -> 86400000

\* the name parseEpoch settles on (when there is one) and its value
Selected == dateAttrs[FirstPresent]

SelectedValue == element[Selected]

Selects(name) == AllRecognized /\ PresentAt # {} /\ Selected = name

\* the offset in seconds the element asks for
OffsetSeconds ==
  IF "offset-seconds" \in DOMAIN element /\ element["offset-seconds"] \in NumericStrings
  THEN Denotes(element["offset-seconds"])
  ELSE 0

\* the call resolved an epoch that is a number
ResolvedNumber(c) == c.epoch.kind = "return" /\ c.epoch.value.t = "number"

(***************************************************************************)
(* C1.  Every name of dateAttrs is looked up in the registry before any    *)
(* attribute is read: in the trace of a call all lookups precede all reads *)
(* and parser calls; a call that read an attribute had looked up the whole *)
(* list first; and if the lookup of any name of the list (at any position) *)
(* yields nothing, the call throws 'Invalid date attribute' having read    *)
(* and parsed nothing.                                                     *)
(***************************************************************************)
C1_ValidationBeforeReads ==
  \A c \in calls :
    /\ \A i, j \in 1..Len(c.log) :
         (c.log[i].op = "lookup" /\ c.log[j].op # "lookup") => i < j
    /\ (\E j \in 1..Len(c.log) : c.log[j].op # "lookup") =>
         /\ Len(c.log) > Len(dateAttrs)
         /\ \A k \in 1..Len(dateAttrs) : c.log[k] = Ev("lookup", dateAttrs[k])
    /\ ~AllRecognized =>
         /\ c.out.kind = "throw" /\ c.out.message = InvalidAttrMsg
         /\ c.epoch = c.out
         /\ \A j \in 1..Len(c.log) : c.log[j].op = "lookup"

\* an unknown name after a recognized name that is present with a good value
C1_Witness ==
  \E c \in calls :
    /\ dateAttrs = <<"timestamp-ms", "bogus">>
    /\ "timestamp-ms" \in DOMAIN element /\ element["timestamp-ms"] = V_10
    /\ c.out = Throw(InvalidAttrMsg, <<"bogus">>)
    /\ StepNames(c.log) = <<"timestamp-ms", "bogus">>

(***************************************************************************)
(* C2.  parseEpoch tries the names in the caller's order and returns what  *)
(* the parser of the first name with a present, non-empty value yields: it *)
(* reads exactly the attributes up to that name, in order, skipping absent *)
(* and empty ones, and calls no other parser.  With names                  *)
(* [timestamp-ms, datetime] and both present, timestamp-ms = "10" gives 10 *)
(* whatever the datetime value is.                                         *)
(***************************************************************************)
C2_FirstPresentWins ==
  \A c \in calls :
    (AllRecognized /\ PresentAt # {}) =>
      LET k == FirstPresent
          reads == StepNames(Steps(c.log, "getAttribute"))
      IN /\ Len(reads) >= k
         /\ SubSeq(reads, 1, k) = SubSeq(dateAttrs, 1, k)
         /\ \A j \in k + 1..Len(reads) : reads[j] = "offset-seconds"
         /\ StepNames(Steps(c.log, "parse")) = <<dateAttrs[k]>>
         /\ \E t \in Clock :
              c.epoch = CallParser(dateAttrParsers(dateAttrs[k]),
                                   Str(element[dateAttrs[k]]), t)
         /\ (dateAttrs = <<"timestamp-ms", "datetime">> /\ k = 1
               /\ element["timestamp-ms"] = V_10)
              => c.epoch = Return(Num(10))

\* both present, the later one invalid
C2_Witness ==
  \E c \in calls :
    /\ dateAttrs = <<"timestamp-ms", "datetime">>
    /\ DOMAIN element = {"timestamp-ms", "datetime"}
    /\ element["timestamp-ms"] = V_10 /\ element["datetime"] = V_abc
    /\ c.epoch = Return(Num(10))

\* an empty value is skipped and the next name is used
C2_WitnessSkip ==
  \E c \in calls :
    /\ dateAttrs = <<"timestamp-ms", "datetime">>
    /\ DOMAIN element = {"timestamp-ms", "datetime"}
    /\ element["timestamp-ms"] = V_empty /\ element["datetime"] = V_nextDay
    /\ c.epoch = Return(Num(86400000))

(***************************************************************************)
(* C3.  For a list that passes the validation, when no candidate name has  *)
(* a value on the element (the empty list included), parseEpoch returns    *)
(* null and parseDateAttrs throws 'One of attributes [...] is required'    *)
(* with all the requested names; it returns no timestamp.                  *)
(***************************************************************************)
C3_NoCandidateIsMissing ==
  \A c \in calls :
    (AllRecognized /\ PresentAt = {}) =>
      /\ c.epoch = Return(Null)
      /\ c.out = Throw(MissingAttrMsg, dateAttrs)

\* two candidates, one absent and one empty, beside an attribute not asked for
C3_Witness ==
  \E c \in calls :
    /\ dateAttrs = <<"datetime", "timestamp-ms">>
    /\ DOMAIN element = {"datetime", "timeleft-ms"}
    /\ element["datetime"] = V_empty /\ element["timeleft-ms"] = V_10
    /\ c.out = Throw(MissingAttrMsg, <<"datetime", "timestamp-ms">>)

\* the empty candidate list
C3_WitnessEmptyList ==
  \E c \in calls :
    dateAttrs = <<>> /\ c.epoch = Return(Null) /\ c.out = Throw(MissingAttrMsg, <<>>)

(***************************************************************************)
(* C4.  (refuted) Whenever the selected candidate's parser yields a        *)
(* timestamp, whatever its value (0 and negative values included),         *)
(* parseDateAttrs returns that timestamp plus the offset and does not      *)
(* throw 'One of attributes [...] is required'.                            *)
(***************************************************************************)
C4_PresentTimestampIsReturned ==
  \A c \in calls :
    ResolvedNumber(c) =>
      c.out = Return(Num(c.epoch.value.n + 1000 * OffsetSeconds))

(***************************************************************************)
(* C5.  parseDateAttrs returns resolvedEpoch + 1000 * offsetSeconds, where *)
(* offsetSeconds is the number the offset-seconds attribute denotes and 0  *)
(* when the attribute is absent, empty or non-numeric: every call that     *)
(* returns returns that sum, and every call whose resolved epoch passes    *)
(* the assertion (a number other than 0) returns.                          *)
(***************************************************************************)
C5_OffsetAdded ==
  \A c \in calls :
    /\ c.out.kind = "return" =>
         /\ ResolvedNumber(c)
         /\ c.out.value = Num(c.epoch.value.n + 1000 * OffsetSeconds)
    /\ (ResolvedNumber(c) /\ c.epoch.value.n # 0) => c.out.kind = "return"

\* timestamp-ms = "10" with offset-seconds = "-3" gives 10 - 3000
C5_Witness ==
  \E c \in calls :
    /\ dateAttrs = <<"timestamp-ms">>
    /\ DOMAIN element = {"timestamp-ms", "offset-seconds"}
    /\ element["timestamp-ms"] = V_10 /\ element["offset-seconds"] = V_minus3
    /\ c.out = Return(Num(-2990))

\* a non-numeric offset counts as 0
C5_WitnessNonNumeric ==
  \E c \in calls :
    /\ dateAttrs = <<"timestamp-ms">>
    /\ DOMAIN element = {"timestamp-ms", "offset-seconds"}
    /\ element["timestamp-ms"] = V_10 /\ element["offset-seconds"] = V_abc
    /\ c.out = Return(Num(10))

(***************************************************************************)
(* C6.  (refuted) The registry recognizes exactly the five names: a list   *)
(* holding any other name makes the call throw 'Invalid date attribute'    *)
(* naming a name that is not one of the five.                              *)
(***************************************************************************)
C6_OnlyTheFiveNamesPass ==
  \A c \in calls :
    LET five == {"datetime", "end-date", "timeleft-ms", "timestamp-ms",
                 "timestamp-seconds"}
    IN (\E k \in 1..Len(dateAttrs) : dateAttrs[k] \notin five) =>
         /\ c.out.kind = "throw"
         /\ c.out.message = InvalidAttrMsg
         /\ c.out.arg[1] \notin five

(***************************************************************************)
(* C7.  For a numeric string v the timestamp-ms parser yields the number v *)
(* and the timestamp-seconds parser yields v * 1000; parseDateAttrs with   *)
(* only timestamp-seconds = "10" present and no offset returns 10000.      *)
(***************************************************************************)
C7_TimestampParsers ==
  \A c \in calls :
    /\ (Selects("timestamp-ms") /\ SelectedValue \in NumericStrings) =>
         c.epoch = Return(Num(Denotes(SelectedValue)))
    /\ (Selects("timestamp-seconds") /\ SelectedValue \in NumericStrings) =>
         c.epoch = Return(Num(1000 * Denotes(SelectedValue)))
    /\ (dateAttrs = <<"timestamp-seconds">> /\ DOMAIN element = {"timestamp-seconds"}
          /\ element["timestamp-seconds"] = V_10) =>
         c.out = Return(Num(10000))

C7_Witness ==
  \E c \in calls :
    /\ dateAttrs = <<"timestamp-seconds">>
    /\ DOMAIN element = {"timestamp-seconds"}
    /\ element["timestamp-seconds"] = V_10
    /\ c.epoch = Return(Num(10000)) /\ c.out = Return(Num(10000))

(***************************************************************************)
(* C8.  The timeleft-ms parser yields the clock value of the call plus the *)
(* number the value denotes: two calls on the same input made at clock     *)
(* values t1 and t2 yield results that differ by exactly t2 - t1, so a     *)
(* later clock gives a larger result.                                      *)
(***************************************************************************)
C8_TimeleftFollowsClock ==
  \A c1, c2 \in calls :
    (Selects("timeleft-ms") /\ SelectedValue \in NumericStrings) =>
      /\ c1.now # Null /\ c2.now # Null
      /\ c1.epoch = Return(Num(c1.now.n + Denotes(SelectedValue)))
      /\ c2.epoch.value.n - c1.epoch.value.n = c2.now.n - c1.now.n
      /\ c1.now.n < c2.now.n => c1.epoch.value.n < c2.epoch.value.n

\* the same input parsed at clock 1000 and at clock 1002
C8_Witness ==
  \E c1, c2 \in calls :
    /\ Selects("timeleft-ms") /\ SelectedValue = V_10
    /\ c1.now = Num(1000) /\ c2.now = Num(1002)
    /\ c1.epoch = Return(Num(1010)) /\ c2.epoch = Return(Num(1012))

(***************************************************************************)
(* C9.  (refuted) The datetime and end-date parsers return the epoch       *)
(* milliseconds of a parsable date and throw 'Invalid date' if and only if *)
(* the value cannot be parsed as a date.                                   *)
(***************************************************************************)
C9_InvalidDateIffUnparsable ==
  \A c \in calls :
    (Selects("datetime") \/ Selects("end-date")) =>
      IF SelectedValue \in ParsableDates
      THEN c.epoch = Return(Num(EpochOf(SelectedValue)))
      ELSE c.epoch = Throw(InvalidDateMsg, SelectedValue)

(***************************************************************************)
(* C10.  (refuted) A non-numeric value of timeleft-ms, timestamp-ms or     *)
(* timestamp-seconds raises no error: parseDateAttrs returns NaN.          *)
(***************************************************************************)
C10_NaNIsReturned ==
  \A c \in calls :
    ((Selects("timeleft-ms") \/ Selects("timestamp-ms") \/ Selects("timestamp-seconds"))
       /\ SelectedValue \notin NumericStrings) =>
      c.out = Return(NaN)

(***************************************************************************)
(* C11.  parseDateAttrs is deterministic whenever the selected attribute   *)
(* is not timeleft-ms: calls with the same element and the same list, made *)
(* at whatever clock values, have one outcome (the same timestamp or the   *)
(* same error, by the same steps); two calls differ only when timeleft-ms  *)
(* is the selected attribute.                                              *)
(***************************************************************************)
C11_DeterministicButTimeleft ==
  \A c1, c2 \in calls :
     (c1.out # c2.out \/ c1.epoch # c2.epoch \/ c1.log # c2.log)
       => Selects("timeleft-ms")

\* timestamp-seconds="10" was resolved: whatever the clock showed, the calls
\* made left the one outcome 10000, and none of them read the clock
C11_Witness ==
  /\ dateAttrs = <<"timestamp-seconds">>
  /\ element = [a \in {"timestamp-seconds"} |-> V_10]
  /\ calls # {}
  /\ \A c \in calls : c.out = Return(Num(10000)) /\ c.now = Null

\* the contrast: with timeleft-ms selected, two calls gave two timestamps
C11_WitnessTimeleft ==
  /\ Selects("timeleft-ms")
  /\ \E c1, c2 \in calls :
        /\ c1.out.kind = "return" /\ c2.out.kind = "return"
        /\ c1.out # c2.out

(***************************************************************************)
(* C12.  parseDateAttrs only reads: over any call, returning or throwing,  *)
(* the element's attributes and the list stay as they were (the registry   *)
(* is a constant of the module), the steps of the call are lookups, reads  *)
(* and parser calls, and the call's outcome is the one a first call on the *)
(* same element and list would have, whatever calls came before.           *)
(***************************************************************************)
\* the record a call made in this state leaves when the clock shows t
FirstCallRecords(t) ==
  {[epoch |-> r.epoch, out |-> r.out, log |-> r.log,
    now |-> IF ReadsClock(r.log) THEN Num(t) ELSE Null] :
     r \in {parseDateAttrs(element, dateAttrs, t)}}

ReadOnlySteps(log) ==
  \A i \in 1..Len(log) : log[i].op \in {"lookup", "getAttribute", "parse"}

C12_OnlyReads ==
  [][ /\ element' = element
      /\ dateAttrs' = dateAttrs
      /\ calls \subseteq calls'
      /\ calls' # calls =>
            \A c \in calls' \ calls :
               /\ \E t \in Clock : c \in FirstCallRecords(t)
               /\ ReadOnlySteps(c.log) ]_vars

\* two calls were made on an element that still carries what it carried:
\* timeleft-ms="10" and offset-seconds="-3", read by both
C12_Witness ==
  /\ dateAttrs = <<"timeleft-ms">>
  /\ element = [a \in {"timeleft-ms", "offset-seconds"} |->
                  IF a = "timeleft-ms" THEN V_10 ELSE V_minus3]
  /\ Cardinality(calls) >= 2
  /\ \A c \in calls : c.out = Return(Add(Add(c.now, Num(10)), Num(-3000)))

\* a call that threw left the element as it was
C12_WitnessThrow ==
  /\ dateAttrs = <<"datetime", "bogus">>
  /\ element = [a \in {"datetime"} |-> V_nextDay]
  /\ \E c \in calls : c.out = Throw(InvalidAttrMsg, <<"bogus">>)

(***************************************************************************)
(* The interactive image quiz and image poll.  An author gives a component *)
(* its options, then the runtime builds it.                                *)
(***************************************************************************)
ImproperOptionsMsg == "Improper number of options"

\* buildCallback accepting a single option
buildCallbackFromOne(options) ==
  IF options >= 1 /\ options <= 4 THEN Return(Num(options))
  ELSE Throw(ImproperOptionsMsg, <<options>>)

\* buildCallback without the upper limit
buildCallbackNoUpperLimit(options) ==
  IF options >= 2 THEN Return(Num(options))
  ELSE Throw(ImproperOptionsMsg, <<options>>)

\* buildCallback of a component configured with the given number of options
buildCallback(options) ==
  IF options >= 2 /\ options <= 4 THEN Return(Num(options))
  ELSE Throw(ImproperOptionsMsg, <<options>>)

InteractiveInit ==
  /\ element = <<>> /\ dateAttrs = <<>> /\ calls = {}
  /\ interactive = InteractiveConstructed
  /\ AttachmentConstructed(Null, "page-1")

\* one more option-N-... group of attributes on the component's element
AddOption(k) ==
  /\ interactive[k].status = "constructed"
  /\ interactive[k].options < MaxOptions
  /\ interactive' = [interactive EXCEPT ![k].options = @ + 1]
  /\ UNCHANGED <<dateVars, attachmentVars>>

\* component.buildCallback()
InteractiveBuildCallback(k) ==
  /\ interactive[k].status = "constructed"
  /\ \E r \in {buildCallback(interactive[k].options)} :
       interactive' =
         [interactive EXCEPT ![k].status = IF r.kind = "throw" THEN "threw" ELSE "built",
                             ![k].error = IF r.kind = "throw" THEN Str(r.message) ELSE Null]
  /\ UNCHANGED <<dateVars, attachmentVars>>

InteractiveNext ==
  \/ \E k \in InteractiveKinds : AddOption(k)
  \/ \E k \in InteractiveKinds : InteractiveBuildCallback(k)

InteractiveSpec == InteractiveInit /\ [][InteractiveNext]_vars

C13_WitnessThrows ==
  /\ interactive["img-quiz"].options = 1 /\ interactive["img-quiz"].status = "threw"
  /\ interactive["img-poll"].options = 5 /\ interactive["img-poll"].status = "threw"

(***************************************************************************)
(* The page attachment.  Its operations are functions of the world w: the  *)
(* attachment, the window, the store and the analytics events so far.      *)
(***************************************************************************)
World == [attachment |-> attachment, win |-> win, store |-> store,
          analytics |-> analytics]

StoryAnalyticsEvent ==
  [OPEN |-> "OPEN", CLOSE |-> "CLOSE",
   PAGE_ATTACHMENT_ENTER |-> "PAGE_ATTACHMENT_ENTER",
   PAGE_ATTACHMENT_EXIT |-> "PAGE_ATTACHMENT_EXIT"]

\* this.storeService_.dispatch(action, value)
dispatch(w, action, value) == [w EXCEPT !.store[action] = Bool(value)]

\* this.analyticsService_.triggerEvent(event)
triggerEvent(w, event) == [w EXCEPT !.analytics = Append(@, event)]

\* getState(this.win.history)
getState(w) == w.win.entries[Len(w.win.entries)]

\* this.historyService_.push(onPop, state)
push(w, onPop, state) ==
  [w EXCEPT !.win.entries = Append(@, state), !.win.onPop = Append(@, onPop)]

\* setHistoryState(this.win, name, value)
setHistoryState(w, name, value) ==
  [w EXCEPT !.win.entries[Len(w.win.entries)][name] = value]

\* DraggableDrawer.open, DraggableDrawer.closeInternal_, DraggableDrawer.drag_
DraggableDrawer_open(w) == [w EXCEPT !.attachment.state_ = DrawerState.OPEN]

DraggableDrawer_closeInternal_(w) ==
  [w EXCEPT !.attachment.state_ = DrawerState.CLOSED]

drag_(w, deltaY) ==
  IF w.attachment.state_ \in {DrawerState.CLOSED, DrawerState.DRAGGING_TO_OPEN}
  THEN IF deltaY > 0 THEN w
       ELSE [w EXCEPT !.attachment.state_ = DrawerState.DRAGGING_TO_OPEN]
  ELSE IF deltaY < 0 THEN w
       ELSE [w EXCEPT !.attachment.state_ = DrawerState.DRAGGING_TO_CLOSE]

\* openRemote_(): the timeout that appends the animation and follows the link
openRemote_(w) == [w EXCEPT !.win.timer = TRUE]

\* closeInternal_ without the test of the state
closeInternalUnguarded_(w) ==
  LET w1 == DraggableDrawer_closeInternal_(w)
      w2 == dispatch(w1, "TOGGLE_PAGE_ATTACHMENT_STATE", FALSE)
      w3 == dispatch(w2, "TOGGLE_SYSTEM_UI_IS_VISIBLE", TRUE)
      w4 == IF w3.win.animationEl
            THEN [w3 EXCEPT !.win.animationEl = FALSE] ELSE w3
      w5 == setHistoryState(w4, "ATTACHMENT_PAGE_ID", Null)
      w6 == triggerEvent(w5, StoryAnalyticsEvent.CLOSE)
  IN triggerEvent(w6, StoryAnalyticsEvent.PAGE_ATTACHMENT_EXIT)

\* closeInternal_ leaving the system UI hidden
closeInternalKeepsUiHidden_(w) ==
  IF w.attachment.state_ = DrawerState.CLOSED THEN w
  ELSE LET w1 == DraggableDrawer_closeInternal_(w)
           w2 == dispatch(w1, "TOGGLE_PAGE_ATTACHMENT_STATE", FALSE)
           w4 == IF w2.win.animationEl
                 THEN [w2 EXCEPT !.win.animationEl = FALSE] ELSE w2
           w5 == setHistoryState(w4, "ATTACHMENT_PAGE_ID", Null)
           w6 == triggerEvent(w5, StoryAnalyticsEvent.CLOSE)
       IN triggerEvent(w6, StoryAnalyticsEvent.PAGE_ATTACHMENT_EXIT)

\* closeInternal_(shouldAnimate)
closeInternal_(w) ==
  IF w.attachment.state_ = DrawerState.CLOSED THEN w
  ELSE LET w1 == DraggableDrawer_closeInternal_(w)
           w2 == dispatch(w1, "TOGGLE_PAGE_ATTACHMENT_STATE", FALSE)
           w3 == dispatch(w2, "TOGGLE_SYSTEM_UI_IS_VISIBLE", TRUE)
           w4 == IF w3.win.animationEl
                 THEN [w3 EXCEPT !.win.animationEl = FALSE] ELSE w3
           w5 == setHistoryState(w4, "ATTACHMENT_PAGE_ID", Null)
           w6 == triggerEvent(w5, StoryAnalyticsEvent.CLOSE)
       IN triggerEvent(w6, StoryAnalyticsEvent.PAGE_ATTACHMENT_EXIT)

\* this.historyService_.goBack(), and the browser's back button: the last
\* entry pushed is popped and its callback runs; nothing to pop, nothing done
goBack(w) ==
  IF w.win.onPop = <<>> THEN w
  ELSE LET n == Len(w.win.onPop)
           w1 == [w EXCEPT !.win.onPop = SubSeq(@, 1, n - 1),
                           !.win.entries = SubSeq(@, 1, n)]
       IN IF w.win.onPop[n] = "closeInternal_" THEN closeInternal_(w1) ELSE w1

\* close_()
close_(w) ==
  CASE w.attachment.state_ \in {DrawerState.OPEN, DrawerState.DRAGGING_TO_CLOSE} ->
         goBack(w)
    [] w.attachment.state_ = DrawerState.DRAGGING_TO_OPEN -> closeInternal_(w)
    [] OTHER -> w

\* open without the test of the state
openUnguarded(w) ==
  LET w1 == DraggableDrawer_open(w)
      w2 == dispatch(w1, "TOGGLE_PAGE_ATTACHMENT_STATE", TRUE)
      w3 == dispatch(w2, "TOGGLE_SYSTEM_UI_IS_VISIBLE", FALSE)
      w4 == IF w3.attachment.type_ # AttachmentType.REMOTE
            THEN push(w3, "closeInternal_",
                      [getState(w3) EXCEPT
                         !.ATTACHMENT_PAGE_ID = w3.store.CURRENT_PAGE_ID])
            ELSE w3
      w5 == triggerEvent(w4, StoryAnalyticsEvent.OPEN)
      w6 == triggerEvent(w5, StoryAnalyticsEvent.PAGE_ATTACHMENT_ENTER)
  IN IF w6.attachment.type_ = AttachmentType.REMOTE THEN openRemote_(w6) ELSE w6

\* open pushing a state made of ATTACHMENT_PAGE_ID alone
openDropsHistoryState(w) ==
  IF w.attachment.state_ = DrawerState.OPEN THEN w
  ELSE LET w1 == DraggableDrawer_open(w)
           w2 == dispatch(w1, "TOGGLE_PAGE_ATTACHMENT_STATE", TRUE)
           w3 == dispatch(w2, "TOGGLE_SYSTEM_UI_IS_VISIBLE", FALSE)
           w4 == IF w3.attachment.type_ # AttachmentType.REMOTE
                 THEN push(w3, "closeInternal_",
                           [ATTACHMENT_PAGE_ID |-> w3.store.CURRENT_PAGE_ID,
                            NAVIGATION_PATH |-> Null])
                 ELSE w3
           w5 == triggerEvent(w4, StoryAnalyticsEvent.OPEN)
           w6 == triggerEvent(w5, StoryAnalyticsEvent.PAGE_ATTACHMENT_ENTER)
       IN IF w6.attachment.type_ = AttachmentType.REMOTE THEN openRemote_(w6) ELSE w6

\* open(shouldAnimate)
open(w) ==
  IF w.attachment.state_ = DrawerState.OPEN THEN w
  ELSE LET w1 == DraggableDrawer_open(w)
           w2 == dispatch(w1, "TOGGLE_PAGE_ATTACHMENT_STATE", TRUE)
           w3 == dispatch(w2, "TOGGLE_SYSTEM_UI_IS_VISIBLE", FALSE)
           w4 == IF w3.attachment.type_ # AttachmentType.REMOTE
                 THEN push(w3, "closeInternal_",
                           [getState(w3) EXCEPT
                              !.ATTACHMENT_PAGE_ID = w3.store.CURRENT_PAGE_ID])
                 ELSE w3
           w5 == triggerEvent(w4, StoryAnalyticsEvent.OPEN)
           w6 == triggerEvent(w5, StoryAnalyticsEvent.PAGE_ATTACHMENT_ENTER)
       IN IF w6.attachment.type_ = AttachmentType.REMOTE THEN openRemote_(w6) ELSE w6

(***************************************************************************)
(* The attachment's state machine.                                         *)
(***************************************************************************)
\* values of the href attribute: absent, empty, a URL
Hrefs == {Null, Str(<<>>), Str(<<"/", "a">>)}

AttachmentInit ==
  /\ element = <<>> /\ dateAttrs = <<>> /\ calls = {}
  /\ interactive = InteractiveConstructed
  /\ \E href \in Hrefs : \E page \in PageIds : AttachmentConstructed(href, page)

\* the last of open and closeInternal_ to take effect in w2, reached from World
LastEffective(w2) ==
  IF Len(w2.analytics) = Len(analytics) THEN lastOp.effective
  ELSE IF w2.analytics[Len(w2.analytics)] = StoryAnalyticsEvent.PAGE_ATTACHMENT_ENTER
       THEN "open" ELSE "closeInternal_"

\* the operation called name took the world from World to w2
Becomes(name, w2) ==
  /\ Len(w2.analytics) <= MaxEvents
  /\ Len(w2.win.onPop) <= MaxHistory
  /\ attachment' = w2.attachment
  /\ win' = w2.win
  /\ store' = w2.store
  /\ analytics' = w2.analytics
  /\ lastOp' = [name |-> name, state |-> attachment.state_,
                popped |-> Len(w2.win.onPop) < Len(win.onPop),
                effective |-> LastEffective(w2)]
  /\ UNCHANGED <<dateVars, interactiveVars>>

\* buildCallback(): the type is read off href
AttachmentBuildCallback ==
  /\ attachment.lifecycle = "constructed"
  /\ \E href \in {attachment.href} :
       Becomes("buildCallback",
               [World EXCEPT !.attachment.lifecycle = "built",
                             !.attachment.type_ =
                                IF Truthy(href) THEN AttachmentType.REMOTE
                                ELSE AttachmentType.INLINE])

\* layoutCallback(): initializeListeners_() registers the click listeners
\* and, for a remote attachment, the visibility listener
AttachmentLayoutCallback ==
  /\ attachment.lifecycle = "built"
  /\ Becomes("layoutCallback",
             [World EXCEPT !.attachment.lifecycle = "laidOut",
                           !.attachment.visibilityListener =
                              (attachment.type_ = AttachmentType.REMOTE)])

\* open(), called by the page or at the end of a drag
OpenCall ==
  /\ attachment.lifecycle = "laidOut"
  /\ Becomes("open", open(World))

\* a swipe moves the drawer: drag_(deltaY)
DragCall ==
  /\ attachment.lifecycle = "laidOut"
  /\ \E deltaY \in {-1, 1} : Becomes("drag", drag_(World, deltaY))

\* close_(), called by the close button, a click on the background or at the
\* end of a drag
CloseCall ==
  /\ attachment.lifecycle = "laidOut"
  /\ Becomes("close_", close_(World))

\* the window's pageshow event
PageShow ==
  /\ attachment.lifecycle # "constructed"
  /\ \E persisted \in BOOLEAN :
       Becomes("pageshow", IF persisted THEN closeInternal_(World) ELSE World)

\* the document is hidden or shown again
VisibilityChanged ==
  /\ attachment.lifecycle = "laidOut"
  /\ \E w1 \in {[World EXCEPT !.win.visible = ~@]} :
       Becomes("visibilitychange",
               IF /\ attachment.visibilityListener
                  /\ w1.win.visible
                  /\ w1.attachment.state_ = DrawerState.OPEN
               THEN closeInternal_(w1) ELSE w1)

\* the user goes back in the browser's history
HistoryBack ==
  /\ attachment.lifecycle = "laidOut"
  /\ win.onPop # <<>>
  /\ Becomes("back", goBack(World))

\* the timeout of openRemote_ fires
RemoteTimeout ==
  /\ win.timer
  /\ Becomes("timeout", [World EXCEPT !.win.timer = FALSE, !.win.animationEl = TRUE])

\* the story moves to another page while the drawer is closed
SwitchPage ==
  /\ attachment.lifecycle = "laidOut"
  /\ attachment.state_ = DrawerState.CLOSED
  /\ \E page \in PageIds \ {store.CURRENT_PAGE_ID.s} :
       Becomes("switchPage", [World EXCEPT !.store.CURRENT_PAGE_ID = Str(page)])

AttachmentNext ==
  \/ AttachmentBuildCallback
  \/ AttachmentLayoutCallback
  \/ OpenCall
  \/ DragCall
  \/ CloseCall
  \/ PageShow
  \/ VisibilityChanged
  \/ HistoryBack
  \/ RemoteTimeout
  \/ SwitchPage

AttachmentSpec == AttachmentInit /\ [][AttachmentNext]_vars

(***************************************************************************)
(* Vocabulary of the attachment's properties.                              *)
(***************************************************************************)
\* the states in which close_() pops the history
PopStates == {DrawerState.OPEN, DrawerState.DRAGGING_TO_CLOSE}

\* the last entry pushed is one this attachment's open() pushed
HasOwnEntry ==
  /\ win.onPop # <<>>
  /\ win.onPop[Len(win.onPop)] = "closeInternal_"

(***************************************************************************)
(* C14.  close_() pops the history only in the states OPEN and             *)
(* DRAGGING_TO_CLOSE, and in these states an entry pushed by the           *)
(* attachment's open() exists, so that the pop closes the drawer through   *)
(* closeInternal_; in DRAGGING_TO_OPEN close_() closes the drawer directly *)
(* and pops nothing; in CLOSED it does nothing.  Inline and remote alike.  *)
(***************************************************************************)
C14_ClosePopsOwnEntry ==
  /\ attachment.state_ \in PopStates => HasOwnEntry
  /\ lastOp.name = "close_" =>
        /\ lastOp.popped => lastOp.state \in PopStates
        /\ lastOp.state \in PopStates =>
              lastOp.popped /\ attachment.state_ = DrawerState.CLOSED
        /\ lastOp.state = DrawerState.DRAGGING_TO_OPEN =>
              ~lastOp.popped /\ attachment.state_ = DrawerState.CLOSED
        /\ lastOp.state = DrawerState.CLOSED =>
              ~lastOp.popped /\ attachment.state_ = DrawerState.CLOSED

C15_WitnessRemote ==
  /\ lastOp.name = "open" /\ lastOp.state = DrawerState.OPEN
  /\ attachment.type_ = AttachmentType.REMOTE
  /\ ~win.timer /\ win.animationEl
  /\ Len(analytics) = 2

(***************************************************************************)
(* C16.  closeInternal_() is a no-op when the drawer is already CLOSED: no *)
(* store dispatch, no write of the history state, no CLOSE /               *)
(* PAGE_ATTACHMENT_EXIT event.  Every path that calls it on a closed       *)
(* drawer (a pageshow from the cache, the callback of an entry popped      *)
(* after the drawer was closed by another path) leaves the attachment, the *)
(* store, the events and the states of the remaining entries as they were. *)
(***************************************************************************)
C16_CloseInternalWhenClosedIsNoOp ==
  [][ (attachment.state_ = DrawerState.CLOSED
        /\ lastOp'.name \in {"pageshow", "back", "close_"}) =>
        /\ UNCHANGED <<attachment, store, analytics>>
        /\ win'.timer = win.timer /\ win'.animationEl = win.animationEl
        /\ IF lastOp'.popped
           THEN win'.entries = SubSeq(win.entries, 1, Len(win.entries) - 1)
           ELSE win'.entries = win.entries ]_vars

\* an inline attachment was opened, closed by a pageshow from the cache, and
\* then its entry was popped: the callback found the drawer closed
C16_Witness ==
  /\ lastOp.name = "back" /\ lastOp.state = DrawerState.CLOSED /\ lastOp.popped
  /\ win.onPop = <<>>
  /\ analytics = <<StoryAnalyticsEvent.OPEN, StoryAnalyticsEvent.PAGE_ATTACHMENT_ENTER,
                   StoryAnalyticsEvent.CLOSE, StoryAnalyticsEvent.PAGE_ATTACHMENT_EXIT>>

\* a pageshow from the cache found the drawer of a remote attachment closed
\* by the visibility change before it
C16_WitnessPageShow ==
  /\ lastOp.name = "pageshow" /\ lastOp.state = DrawerState.CLOSED
  /\ attachment.type_ = AttachmentType.REMOTE
  /\ lastOp.effective = "closeInternal_"
  /\ Len(analytics) = 4

(***************************************************************************)
(* C17.  An effective open() of an inline attachment pushes exactly one    *)
(* history entry, whose state is the current history state plus            *)
(* ATTACHMENT_PAGE_ID = the store's current page id and whose callback is  *)
(* closeInternal_; an effective open() of a remote attachment pushes none  *)
(* and starts the remote-open timeout; the type is fixed by buildCallback  *)
(* from href and never changes afterwards.                                 *)
(***************************************************************************)
\* a step of an attachment that is remote or not, as the claim has it
TypeAndPush(remote) ==
  /\ lastOp'.name = "buildCallback" =>
        attachment'.type_ = IF remote THEN AttachmentType.REMOTE
                            ELSE AttachmentType.INLINE
  /\ attachment.lifecycle # "constructed" =>
        attachment'.type_ = attachment.type_ /\ attachment'.href = attachment.href
  /\ (lastOp'.name = "open" /\ attachment.state_ # DrawerState.OPEN) =>
        IF remote
        THEN /\ win'.onPop = win.onPop
             /\ win'.entries = win.entries
             /\ win'.timer
        ELSE /\ win'.onPop = Append(win.onPop, "closeInternal_")
             /\ win'.entries =
                  Append(win.entries,
                         [getState(World) EXCEPT
                            !.ATTACHMENT_PAGE_ID = store.CURRENT_PAGE_ID])
             /\ win'.timer = win.timer

\* the claim as stated: remote when href is present, inline when it is absent
C17_TypeFromHrefPresence == [][TypeAndPush(attachment.href # Null)]_vars

\* the claim as amended: remote when href is present and not empty
C17_TypeFromHrefValue == [][TypeAndPush(Truthy(attachment.href))]_vars

\* an inline attachment was opened on page-2 of a story entered at page-1:
\* the entry pushed keeps the navigation path and names page-2
C17_Witness ==
  /\ lastOp.name = "open" /\ lastOp.state = DrawerState.CLOSED
  /\ attachment.href = Null /\ attachment.type_ = AttachmentType.INLINE
  /\ win.onPop = <<"closeInternal_">>
  /\ win.entries = << [ATTACHMENT_PAGE_ID |-> Null, NAVIGATION_PATH |-> Str("page-1")],
                      [ATTACHMENT_PAGE_ID |-> Str("page-2"),
                       NAVIGATION_PATH |-> Str("page-1")] >>

\* an attachment with href="" was opened: it is inline and pushed its entry
C17_WitnessEmptyHref ==
  /\ lastOp.name = "open" /\ lastOp.state = DrawerState.CLOSED
  /\ attachment.href = Str(<<>>) /\ attachment.type_ = AttachmentType.INLINE
  /\ win.onPop = <<"closeInternal_">> /\ ~win.timer

\* a remote attachment was opened: no entry, the timeout is pending
C17_WitnessRemote ==
  /\ lastOp.name = "open" /\ lastOp.state = DrawerState.CLOSED
  /\ attachment.type_ = AttachmentType.REMOTE
  /\ win.onPop = <<>> /\ win.timer

(***************************************************************************)
(* C18.  The values the attachment last dispatched to the store: the page  *)
(* attachment state is true and the system UI visibility false exactly     *)
(* when the last call to take effect was open() (so whenever the drawer is *)
(* OPEN), false and true exactly when it was closeInternal_() (so whenever *)
(* the drawer is CLOSED after a dispatch); the two are always opposite;    *)
(* and a closeInternal_ that took effect left ATTACHMENT_PAGE_ID null in   *)
(* the history state.                                                      *)
(***************************************************************************)
C18_StoreFollowsDrawer ==
  LET a == store.TOGGLE_PAGE_ATTACHMENT_STATE
      u == store.TOGGLE_SYSTEM_UI_IS_VISIBLE
  IN /\ lastOp.effective = "none" <=> (a = Null /\ u = Null)
     /\ lastOp.effective = "open" <=> (a = Bool(TRUE) /\ u = Bool(FALSE))
     /\ lastOp.effective = "closeInternal_" <=> (a = Bool(FALSE) /\ u = Bool(TRUE))
     /\ a # Null => (u # Null /\ a.b # u.b)
     /\ attachment.state_ = DrawerState.OPEN => lastOp.effective = "open"
     /\ attachment.state_ = DrawerState.CLOSED => lastOp.effective # "open"
     /\ (lastOp.state # DrawerState.CLOSED /\ attachment.state_ = DrawerState.CLOSED) =>
           getState(World).ATTACHMENT_PAGE_ID = Null

\* opened, closed and opened again: the drawer is OPEN and the store was
\* last told true and false
C18_Witness ==
  /\ attachment.state_ = DrawerState.OPEN
  /\ Len(analytics) = 6
  /\ lastOp.name = "open" /\ lastOp.state = DrawerState.CLOSED
  /\ store.TOGGLE_PAGE_ATTACHMENT_STATE = Bool(TRUE)
  /\ store.TOGGLE_SYSTEM_UI_IS_VISIBLE = Bool(FALSE)

\* an open inline attachment was closed by a pageshow from the cache: the
\* store was last told false and true, and the entry open() pushed, still
\* the current one, has lost its ATTACHMENT_PAGE_ID
C18_WitnessClosed ==
  /\ lastOp.name = "pageshow" /\ lastOp.state = DrawerState.OPEN
  /\ attachment.state_ = DrawerState.CLOSED
  /\ win.onPop = <<"closeInternal_">>
  /\ getState(World).ATTACHMENT_PAGE_ID = Null
  /\ store.TOGGLE_PAGE_ATTACHMENT_STATE = Bool(FALSE)
  /\ store.TOGGLE_SYSTEM_UI_IS_VISIBLE = Bool(TRUE)

(***************************************************************************)
(* C19.  The analytics events of the attachment strictly alternate: over   *)
(* any sequence of open, drag, close_ and closeInternal_ operations the    *)
(* events come as OPEN, PAGE_ATTACHMENT_ENTER, CLOSE, PAGE_ATTACHMENT_EXIT *)
(* in turn, so that every CLOSE pair answers an OPEN pair not yet closed   *)
(* and no two OPEN pairs come without a CLOSE pair between them.           *)
(***************************************************************************)
EventCycle ==
  <<StoryAnalyticsEvent.OPEN, StoryAnalyticsEvent.PAGE_ATTACHMENT_ENTER,
    StoryAnalyticsEvent.CLOSE, StoryAnalyticsEvent.PAGE_ATTACHMENT_EXIT>>

C19_EventsAlternate ==
  \A i \in 1..Len(analytics) : analytics[i] = EventCycle[((i - 1) % 4) + 1]

====
